---------------------------- MODULE Spec2Model ----------------------------
(***************************************************************************)
(* A model of py_wrike_v4's Wrike client (src/py_wrike_v4/wrike.py): the   *)
(* five lazily filled cache slots, reinitialize(), the cached properties,  *)
(* extract_project_status / extract_project_value_from_folder, and the     *)
(* queries convert_to_id4s, query_timelogs, query_folder_by_title and      *)
(* query_folder_subtrees_by_title.                                         *)
(*                                                                         *)
(* Python values are tagged records: None is PyNone, a dict is             *)
(* PyDict(items) with items the sequence of its entries in insertion       *)
(* order, a string is PyStr(s).  JSON objects of the service are TLA+      *)
(* records; a field a JSON object lacks is a field the record lacks.       *)
(***************************************************************************)
EXTENDS Naturals, Sequences, FiniteSets

(***************************************************************************)
(* Bounds of the model: the longest "data" list a response carries, and    *)
(* the longest list convert_list_to_dict is called with on its own.        *)
(***************************************************************************)
MaxLen == 2

MaxRecords == 3

-----------------------------------------------------------------------------
(* Python values *)

PyNone == [type |-> "None"]

PyDict(items) == [type |-> "dict", items |-> items]

PyStr(s) == [type |-> "str", s |-> s]

\* The empty dict literal {} of custom_statuses.
EmptyDict == PyDict(<<>>)

\* bool(v) for the values the client tests: None, "" and {} are false.
Truthy(v) ==
    CASE v.type = "None" -> FALSE
      [] v.type = "dict" -> Len(v.items) > 0
      [] v.type = "str"  -> v.s # ""

\* str(v) for None and for strings.
PyStrOf(v) == IF v.type = "None" THEN "None" ELSE v.s

-----------------------------------------------------------------------------
(* Dictionaries in insertion order *)

Keys(items) == {items[i].key : i \in 1..Len(items)}

\* d[key] = value: an existing key keeps its position, a new one is appended.
DictSet(items, key, value) ==
    IF key \in Keys(items)
    THEN [i \in 1..Len(items) |->
             IF items[i].key = key THEN [key |-> key, value |-> value]
                                   ELSE items[i]]
    ELSE Append(items, [key |-> key, value |-> value])

\* d[key], for a key of d.
DictGet(items, key) ==
    LET i == CHOOSE j \in 1..Len(items) : items[j].key = key
    IN  items[i].value

\* d.values(), in insertion order.
DictValues(items) == [i \in 1..Len(items) |-> items[i].value]

\* A conversion that skips the records without "id".
RECURSIVE ConvertFromSkipping(_, _)
ConvertFromSkipping(list, acc) ==
    IF list = <<>> THEN [ok |-> TRUE, items |-> acc]
    ELSE IF "id" \notin DOMAIN Head(list)
         THEN ConvertFromSkipping(Tail(list), acc)
         ELSE ConvertFromSkipping(Tail(list),
                                  DictSet(acc, Head(list).id, Head(list)))

\* helpers.convert_list_to_dict: {record["id"]: record for record in list};
\* a record without "id" raises KeyError.
RECURSIVE ConvertFrom(_, _)
ConvertFrom(list, acc) ==
    IF list = <<>> THEN [ok |-> TRUE, items |-> acc]
    ELSE IF "id" \notin DOMAIN Head(list)
         THEN [ok |-> FALSE, items |-> acc]
         ELSE ConvertFrom(Tail(list), DictSet(acc, Head(list).id, Head(list)))

convert_list_to_dict(list) == ConvertFrom(list, <<>>)

-----------------------------------------------------------------------------
(* The service's data *)

Kinds == {"contacts", "custom_fields", "custom_statuses", "folders", "workflows"}

\* The kinds that have an endpoint of their own.
FetchedKinds == Kinds \ {"custom_statuses"}

\* The path each query_*_all / query_workflows passes to get().
Endpoint(kind) ==
    CASE kind = "contacts"      -> "contacts"
      [] kind = "custom_fields" -> "customfields"
      [] kind = "folders"       -> "folders"
      [] kind = "workflows"     -> "workflows"

\* Contact and custom field records: a record, and a malformed one
\* without "id".
PlainRecords ==
    { [id |-> "A", title |-> "one"],
      [title |-> "one"] }

\* Folder records: two versions of one folder, and a malformed record
\* without "id".
FolderRecords ==
    { [id |-> "A", title |-> "one"],
      [id |-> "A", title |-> "two"],
      [title |-> "one"] }

CS1  == [id |-> "CS1", name |-> "Blocked"]
CS1b == [id |-> "CS1", name |-> "Done"]
CS2  == [id |-> "CS2", name |-> "Review"]

\* Workflow records: two with custom statuses (CS1 is in both), one
\* without the "customStatuses" field, and one without "id".
WorkflowRecords ==
    { [id |-> "W1", customStatuses |-> <<CS1, CS2>>],
      [id |-> "W2", customStatuses |-> <<CS1b>>],
      [id |-> "W2"],
      [customStatuses |-> <<>>] }

SeqsUpTo(S, n) == UNION {[1..m -> S] : m \in 0..n}

\* What requests.get(...).json() can give for a list endpoint: it raises
\* (network failure, non-JSON body), or it returns a JSON object with a
\* "data" list, or one without "data" (the service's error object).
Raises == [raises |-> TRUE]

ErrorBody == [raises |-> FALSE, body |-> [error |-> "invalid_request"]]

DataBody(list) == [raises |-> FALSE, body |-> [data |-> list]]

ResponsesOver(records) ==
    {Raises, ErrorBody} \cup {DataBody(l) : l \in SeqsUpTo(records, MaxLen)}

PlainResponses == ResponsesOver(PlainRecords)

FolderResponses == ResponsesOver(FolderRecords)

WorkflowResponses == ResponsesOver(WorkflowRecords)

Responses(kind) ==
    CASE kind = "workflows" -> WorkflowResponses
      [] kind = "folders"   -> FolderResponses
      [] OTHER              -> PlainResponses

\* The response of the step's Transport call when the step makes none.
NoResponse == [raises |-> FALSE, body |-> [none |-> TRUE]]

-----------------------------------------------------------------------------
(* The cached properties, as functions of the cache and of the response    *)
(* Transport gives if it is called.  Each returns the cache it leaves, the *)
(* Transport paths it requested, how it ended ("ok" or the exception that  *)
(* reached the caller) and the value it returned.                          *)

Effect(c, calls, out, ret) == [cache |-> c, calls |-> calls, out |-> out, ret |-> ret]

\* `if not self._x:` of every cached property.
Unpopulated(slot) == ~Truthy(slot)

\* contacts, custom_fields, folders and workflows share one body:
\*     if not self._x:
\*         all_x = self.query_x_all()["data"]
\*         self._x = convert_list_to_dict(all_x)
\*     return self._x
FetchAndStore(c, kind, resp) ==
    IF resp.raises
    THEN Effect(c, <<Endpoint(kind)>>, "TransportError", PyNone)
    ELSE IF "data" \notin DOMAIN resp.body
    THEN Effect(c, <<Endpoint(kind)>>, "KeyError", PyNone)
    ELSE LET conv == convert_list_to_dict(resp.body.data)
         IN  IF ~conv.ok
             THEN Effect(c, <<Endpoint(kind)>>, "KeyError", PyNone)
             ELSE Effect([c EXCEPT ![kind] = PyDict(conv.items)],
                         <<Endpoint(kind)>>, "ok", PyDict(conv.items))

CachedProperty(c, kind, resp) ==
    IF Unpopulated(c[kind])
    THEN FetchAndStore(c, kind, resp)
    ELSE Effect(c, <<>>, "ok", c[kind])

\* A contacts property whose assignment names the slot of custom_fields.
contacts_into_custom_fields(c, resp) ==
    IF Unpopulated(c["contacts"])
    THEN LET e == FetchAndStore(c, "contacts", resp)
         IN  IF e.out # "ok"
             THEN e
             ELSE Effect([c EXCEPT !["custom_fields"] = e.ret], e.calls, "ok", PyNone)
    ELSE Effect(c, <<>>, "ok", c["contacts"])

contacts(c, resp) == CachedProperty(c, "contacts", resp)

custom_fields(c, resp) == CachedProperty(c, "custom_fields", resp)

folders(c, resp) == CachedProperty(c, "folders", resp)

workflows(c, resp) == CachedProperty(c, "workflows", resp)

\* The inner loop of custom_statuses over one workflow's statuses, writing
\* into the dict self._custom_statuses holds; a status without "id" raises.
RECURSIVE AddStatuses(_, _)
AddStatuses(statuses, acc) ==
    IF statuses = <<>> THEN [ok |-> TRUE, items |-> acc]
    ELSE IF "id" \notin DOMAIN Head(statuses)
         THEN [ok |-> FALSE, items |-> acc]
         ELSE AddStatuses(Tail(statuses),
                          DictSet(acc, Head(statuses).id, Head(statuses)))

\* The outer loop of custom_statuses over self.workflows.values(); a
\* workflow without "customStatuses" raises.  What was written before the
\* exception stays in the dict.
RECURSIVE AddWorkflows(_, _)
AddWorkflows(wfs, acc) ==
    IF wfs = <<>> THEN [ok |-> TRUE, items |-> acc]
    ELSE IF "customStatuses" \notin DOMAIN Head(wfs)
         THEN [ok |-> FALSE, items |-> acc]
         ELSE LET one == AddStatuses(Head(wfs).customStatuses, acc)
              IN  IF ~one.ok THEN one ELSE AddWorkflows(Tail(wfs), one.items)

\* custom_statuses:
\*     if not self._custom_statuses:
\*         self._custom_statuses = {}
\*         for workflow in self.workflows.values(): ...
\*     return self._custom_statuses
custom_statuses(c, resp) ==
    IF Unpopulated(c["custom_statuses"])
    THEN LET c1 == [c EXCEPT !["custom_statuses"] = EmptyDict]
             wf == workflows(c1, resp)
         IN  IF wf.out # "ok"
             THEN wf
             ELSE LET built == AddWorkflows(DictValues(wf.ret.items), <<>>)
                      c2 == [wf.cache EXCEPT !["custom_statuses"] = PyDict(built.items)]
                  IN  IF built.ok
                      THEN Effect(c2, wf.calls, "ok", PyDict(built.items))
                      ELSE Effect(c2, wf.calls, "KeyError", PyNone)
    ELSE Effect(c, <<>>, "ok", c["custom_statuses"])

Property(c, kind, resp) ==
    CASE kind = "contacts"        -> contacts(c, resp)
      [] kind = "custom_fields"   -> custom_fields(c, resp)
      [] kind = "custom_statuses" -> custom_statuses(c, resp)
      [] kind = "folders"         -> folders(c, resp)
      [] kind = "workflows"       -> workflows(c, resp)

\* The endpoint a property fetches from on a miss.
SourceOf(kind) == IF kind = "custom_statuses" THEN "workflows" ELSE kind

-----------------------------------------------------------------------------
(* Project status *)

\* JSON null, the value of a "project" field that is not an object.
JsonNull == [null |-> TRUE]

IsMapping(v) == v # JsonNull

\* An extract_project_value_from_folder that defaults to "" where the
\* original gives None.
extract_project_value_defaulting(key, folder) ==
    IF /\ IsMapping(folder)
       /\ "project" \in DOMAIN folder
       /\ IsMapping(folder.project)
       /\ key \in DOMAIN folder.project
    THEN PyStr(folder.project[key])
    ELSE PyStr("")

\* extract_project_value_from_folder: folder["project"][key], and None when
\* anything in that raises.
extract_project_value_from_folder(key, folder) ==
    IF /\ IsMapping(folder)
       /\ "project" \in DOMAIN folder
       /\ IsMapping(folder.project)
       /\ key \in DOMAIN folder.project
    THEN PyStr(folder.project[key])
    ELSE PyNone

\* An extract_project_status whose test for "Custom" never matches.
extract_project_status_unresolved(c, folder, resp) ==
    Effect(c, <<>>, "ok", extract_project_value_from_folder("status", folder))

\* An extract_project_status that falls back to the raw status when the
\* custom status is not cached.
extract_project_status_with_fallback(c, folder, resp) ==
    LET status == extract_project_value_from_folder("status", folder)
        custom_status_id == extract_project_value_from_folder("customStatusId", folder)
    IN  IF PyStrOf(status) = "Custom" /\ Truthy(custom_status_id)
        THEN LET cs == custom_statuses(c, resp)
             IN  IF cs.out # "ok"
                 THEN cs
                 ELSE IF custom_status_id.s \notin Keys(cs.ret.items)
                 THEN Effect(cs.cache, cs.calls, "ok", status)
                 ELSE Effect(cs.cache, cs.calls, "ok",
                             PyStr(DictGet(cs.ret.items, custom_status_id.s).name))
        ELSE Effect(c, <<>>, "ok", status)

\* extract_project_status.
extract_project_status(c, folder, resp) ==
    LET status == extract_project_value_from_folder("status", folder)
        custom_status_id == extract_project_value_from_folder("customStatusId", folder)
    IN  IF PyStrOf(status) = "Custom" /\ Truthy(custom_status_id)
        THEN LET cs == custom_statuses(c, resp)
             IN  IF cs.out # "ok"
                 THEN cs
                 ELSE IF custom_status_id.s \notin Keys(cs.ret.items)
                 THEN Effect(cs.cache, cs.calls, "KeyError", PyNone)
                 ELSE LET found == DictGet(cs.ret.items, custom_status_id.s)
                      IN  IF "name" \notin DOMAIN found
                          THEN Effect(cs.cache, cs.calls, "KeyError", PyNone)
                          ELSE Effect(cs.cache, cs.calls, "ok", PyStr(found.name))
        ELSE Effect(c, <<>>, "ok", status)

\* The folder values extract_project_status is called with.
Folders ==
    { JsonNull,
      [id |-> "F"],
      [id |-> "F", project |-> JsonNull],
      [id |-> "F", project |-> [status |-> "Active"]],
      [id |-> "F", project |-> [status |-> "Custom"]],
      [id |-> "F", project |-> [customStatusId |-> "CS1"]],
      [id |-> "F", project |-> [status |-> "Active", customStatusId |-> "CS1"]],
      [id |-> "F", project |-> [status |-> "Custom", customStatusId |-> ""]],
      [id |-> "F", project |-> [status |-> "Custom", customStatusId |-> "CS2"]] }

-----------------------------------------------------------------------------
(* Queries that pass their arguments on to Transport *)

\* repr(s) of a string without quotes or escapes in it.
PyRepr(s) == "'" \o s \o "'"

\* ", ".join(repr(x) for x in list)
RECURSIVE JoinReprs(_)
JoinReprs(list) ==
    IF list = <<>> THEN ""
    ELSE IF Len(list) = 1 THEN PyRepr(Head(list))
    ELSE PyRepr(Head(list)) \o ", " \o JoinReprs(Tail(list))

\* str(list) of a list of strings: "['a', 'b']".
PyStrOfList(list) == "[" \o JoinReprs(list) \o "]"

\* str({'equal': d}) and str({'start': s, 'end': e}).
PyStrOfEqual(d) == "{'equal': " \o PyRepr(d) \o "}"

PyStrOfRange(s, e) == "{'start': " \o PyRepr(s) \o ", 'end': " \o PyRepr(e) \o "}"

\* What requests.get(...).json() can give a query that hands the body on:
\* it raises, or it returns the body.
Replies == {Raises, DataBody(<<>>)}

\* The params of a get(path) that passes none.
NoParams(paths) == [i \in 1..Len(paths) |-> PyNone]

\* The effect of a call with the params of its requests added.
WithParams(e, params) ==
    [cache |-> e.cache, calls |-> e.calls, params |-> params,
     out |-> e.out, ret |-> e.ret]

\* get(path, params): one requests.get, whose parsed body it returns.  It
\* uses base_url, the headers and ssl_verify of self and no slot.
get(c, path, params, reply) ==
    WithParams(Effect(c, <<path>>,
                      IF reply.raises THEN "TransportError" ELSE "ok",
                      IF reply.raises THEN PyNone ELSE reply.body),
               <<params>>)

\* class IdTypes(Enum): the value of each member.
IdTypes ==
    [ACCOUNT    |-> "ApiV2Account",
     USER       |-> "ApiV2User",
     FOLDER     |-> "ApiV2Folder",
     TASK       |-> "ApiV2Task",
     COMMENT    |-> "ApiV2Comment",
     ATTACHMENT |-> "ApiV2Attachment",
     TIMELOG    |-> "ApiV2Timelog"]

\* A convert_to_id4s that passes the member's name where the original
\* passes its value.
convert_to_id4s_by_name(c, id2s, idType, reply) ==
    get(c, "ids/", [type |-> idType, ids |-> PyStrOfList(id2s)], reply)

\* convert_to_id4s:
\*     params = {'type': idType.value, 'ids': str(id2s)}
\*     return self.get("ids/", params)
convert_to_id4s(c, id2s, idType, reply) ==
    get(c, "ids/", [type |-> IdTypes[idType], ids |-> PyStrOfList(id2s)], reply)

\* A query_timelogs that takes a single date for the start of a range.
query_timelogs_from_start(c, location, tracked_date, reply) ==
    LET params ==
            IF Len(tracked_date) = 1
            THEN [descendants |-> "true",
                  trackedDate |-> "{'start': " \o PyRepr(tracked_date[1]) \o "}"]
            ELSE IF Len(tracked_date) = 2
            THEN [descendants |-> "true",
                  trackedDate |-> PyStrOfRange(tracked_date[1], tracked_date[2])]
            ELSE [descendants |-> "true"]
    IN  get(c, location \o "/timelogs", params, reply)

\* query_timelogs:
\*     params = {'descendants': 'true'}
\*     if tracked_date:
\*         if len(tracked_date) == 1: params['trackedDate'] = str({'equal': ...})
\*         elif len(tracked_date) == 2: params['trackedDate'] = str({'start': ..., 'end': ...})
\*     return self.get(f"{location}/timelogs", params)
query_timelogs(c, location, tracked_date, reply) ==
    LET params ==
            IF Len(tracked_date) = 1
            THEN [descendants |-> "true",
                  trackedDate |-> PyStrOfEqual(tracked_date[1])]
            ELSE IF Len(tracked_date) = 2
            THEN [descendants |-> "true",
                  trackedDate |-> PyStrOfRange(tracked_date[1], tracked_date[2])]
            ELSE [descendants |-> "true"]
    IN  get(c, location \o "/timelogs", params, reply)

\* A loop that takes the first folder, whatever its title.
FindFirst(items, title) ==
    IF items = <<>> THEN [out |-> "ok", ret |-> PyNone]
    ELSE [out |-> "ok", ret |-> Head(items).value]

\* The loop of query_folder_by_title over self.folders.items(): the first
\* folder whose "title" is the title, and None (the function ends without
\* a return) when there is none; a folder without "title" raises.
RECURSIVE FindByTitle(_, _)
FindByTitle(items, title) ==
    IF items = <<>> THEN [out |-> "ok", ret |-> PyNone]
    ELSE LET folder == Head(items).value
         IN  IF "title" \notin DOMAIN folder
             THEN [out |-> "KeyError", ret |-> PyNone]
             ELSE IF folder.title = title
             THEN [out |-> "ok", ret |-> folder]
             ELSE FindByTitle(Tail(items), title)

\* query_folder_by_title.
query_folder_by_title(c, title, resp) ==
    LET f == folders(c, resp)
    IN  IF f.out # "ok"
        THEN f
        ELSE LET found == FindByTitle(f.ret.items, title)
             IN  Effect(f.cache, f.calls, found.out, found.ret)

\* query_folder_subtrees: self.get(f"folders/{folder_id}/folders").
query_folder_subtrees(c, folder_id, reply) ==
    get(c, "folders/" \o folder_id \o "/folders", PyNone, reply)

\* query_folder_subtrees_by_title:
\*     folder = self.query_folder_by_title(title)
\*     return self.query_folder_subtrees(folder["id"])
\* where None["id"] raises TypeError.
query_folder_subtrees_by_title(c, title, resp, reply) ==
    LET q == query_folder_by_title(c, title, resp)
    IN  IF q.out # "ok"
        THEN WithParams(q, NoParams(q.calls))
        ELSE IF q.ret = PyNone
        THEN WithParams(Effect(q.cache, q.calls, "TypeError", PyNone),
                        NoParams(q.calls))
        ELSE IF "id" \notin DOMAIN q.ret
        THEN WithParams(Effect(q.cache, q.calls, "KeyError", PyNone),
                        NoParams(q.calls))
        ELSE LET sub == query_folder_subtrees(q.cache, q.ret.id, reply)
             IN  WithParams(Effect(sub.cache, q.calls \o sub.calls, sub.out, sub.ret),
                            NoParams(q.calls) \o sub.params)

\* The arguments the queries are called with.
Id2Lists == {<<"12345">>, <<"12345", "67890">>}

Locations == {"tasks/T1", ""}

TrackedDates ==
    { <<>>,
      <<"2024-01-01">>,
      <<"2024-01-01", "2024-01-31">>,
      <<"2024-01-01", "2024-01-31", "2024-02-29">> }

Titles == {"one", "two", "three"}

-----------------------------------------------------------------------------
(* The client used by one caller: each step is one whole call.             *)

VARIABLES
    cache,       \* the five slots _contacts, ..., _workflows
    lastOp,      \* the call made last, with its argument
    calls,       \* the Transport paths that call requested, in order
    params,      \* the params of each of those requests (PyNone: no params)
    outcome,     \* "ok", or the exception that call raised
    ret,         \* the value that call returned (PyNone when it raised)
    resp,        \* the response Transport gave that call, if it asked
    afterReset,  \* whether that call directly followed a reinitialize()
    thread,      \* per thread: where it is in its call, and its locals
    given,       \* per endpoint: the dictionaries its responses convert to
    raised,      \* whether a call of some thread has raised
    resetRan     \* whether some thread has called reinitialize()

callVars == <<lastOp, calls, params, outcome, ret, resp, afterReset>>

threadVars == <<thread, given, raised, resetRan>>

vars == <<cache, callVars, threadVars>>

\* The threads that share the client.
NumThreads == 2

Threads == 1..NumThreads

\* The calls each thread makes.
MaxCalls == 1

\* A thread between calls: kind, out and ret are those of its last call,
\* done counts its calls.
Idle(kind, done, out, value) ==
    [pc |-> "idle", kind |-> kind, inner |-> FALSE, data |-> <<>>,
     todo |-> <<>>, statuses |-> <<>>, left |-> <<>>,
     done |-> done, out |-> out, ret |-> value]

NoArg == [none |-> TRUE]

Op(name, arg) == [op |-> name, arg |-> arg]

\* A reinitialize() that forgets self._folders.
reinitialize_keeps_folders(c) ==
    [k \in Kinds |-> IF k = "folders" THEN c[k] ELSE PyNone]

\* A reinitialize() that forgets self._custom_statuses.
reinitialize_keeps_custom_statuses(c) ==
    [k \in Kinds |-> IF k = "custom_statuses" THEN c[k] ELSE PyNone]

\* reinitialize(): the five assignments of None to the slots of self.
reinitialize_slots(c) == [k \in Kinds |-> PyNone]

\* __init__ stores its arguments and ends with self.reinitialize(): every
\* slot is created holding None, and nothing is requested.
Init ==
    /\ cache = [k \in Kinds |-> PyNone]
    /\ lastOp = Op("__init__", NoArg)
    /\ calls = <<>>
    /\ params = <<>>
    /\ outcome = "ok"
    /\ ret = PyNone
    /\ resp = NoResponse
    /\ afterReset = FALSE
    /\ thread = [t \in Threads |-> Idle("none", 0, "none", PyNone)]
    /\ given = [k \in FetchedKinds |-> {}]
    /\ raised = FALSE
    /\ resetRan = FALSE

\* One whole call: what it leaves in the client and what the caller saw.
\* The properties and reinitialize() request with get(path), without params.
Finish(op, e, r) ==
    /\ cache' = e.cache
    /\ lastOp' = op
    /\ calls' = e.calls
    /\ params' = IF "params" \in DOMAIN e THEN e.params ELSE NoParams(e.calls)
    /\ outcome' = e.out
    /\ ret' = e.ret
    /\ resp' = r
    /\ afterReset' = (lastOp.op = "reinitialize")
    /\ UNCHANGED threadVars

reinitialize ==
    Finish(Op("reinitialize", NoArg),
           Effect(reinitialize_slots(cache), <<>>, "ok", PyNone), NoResponse)

\* Transport answers only when it is asked: a call that requests nothing
\* (it requests nothing whatever the answer would be) gets no response.
Answers(kind, requested) ==
    IF requested = <<>> THEN {NoResponse} ELSE Responses(kind)

Access(kind) ==
    \E r \in Answers(SourceOf(kind), Property(cache, kind, NoResponse).calls) :
        Finish(Op(kind, NoArg), Property(cache, kind, r), r)

ExtractProjectStatus ==
    \E folder \in Folders :
        \E r \in Answers("workflows",
                         extract_project_status(cache, folder, NoResponse).calls) :
            Finish(Op("extract_project_status", folder),
                   extract_project_status(cache, folder, r), r)

Next ==
    \/ reinitialize
    \/ \E kind \in Kinds : Access(kind)
    \/ ExtractProjectStatus

Spec == Init /\ [][Next]_vars

-----------------------------------------------------------------------------
(* The queries, on a client whose contacts and folders are read as well.   *)

\* The properties read between the queries.
QueriedKinds == {"contacts", "folders"}

ConvertToId4s ==
    \E id2s \in Id2Lists, idType \in DOMAIN IdTypes, reply \in Replies :
        Finish(Op("convert_to_id4s", [id2s |-> id2s, idType |-> idType]),
               convert_to_id4s(cache, id2s, idType, reply), NoResponse)

QueryTimelogs ==
    \E location \in Locations, tracked_date \in TrackedDates, reply \in Replies :
        Finish(Op("query_timelogs",
                  [location |-> location, tracked_date |-> tracked_date]),
               query_timelogs(cache, location, tracked_date, reply), NoResponse)

QueryFolderByTitle ==
    \E title \in Titles :
        \E r \in Answers("folders",
                         query_folder_by_title(cache, title, NoResponse).calls) :
            Finish(Op("query_folder_by_title", [title |-> title]),
                   query_folder_by_title(cache, title, r), r)

QueryFolderSubtreesByTitle ==
    \E title \in Titles, reply \in Replies :
        \E r \in Answers("folders",
                         query_folder_by_title(cache, title, NoResponse).calls) :
            Finish(Op("query_folder_subtrees_by_title", [title |-> title]),
                   query_folder_subtrees_by_title(cache, title, r, reply), r)

NextQueries ==
    \/ reinitialize
    \/ \E kind \in QueriedKinds : Access(kind)
    \/ ConvertToId4s
    \/ QueryTimelogs
    \/ QueryFolderByTitle
    \/ QueryFolderSubtreesByTitle

SpecQueries == Init /\ [][NextQueries]_vars

-----------------------------------------------------------------------------
(* convert_list_to_dict on its own, applied to lists of records.           *)

\* Records with three ids, two of them sharing one, and a record without
\* "id".
ConvertRecords ==
    { [id |-> "A", title |-> "one"],
      [id |-> "A", title |-> "two"],
      [id |-> "B", title |-> "one"],
      [id |-> "C", title |-> "two"],
      [title |-> "one"] }

ConvertListToDict ==
    \E list \in SeqsUpTo(ConvertRecords, MaxRecords) :
        LET conv == convert_list_to_dict(list)
        IN  Finish(Op("convert_list_to_dict", [list |-> list]),
                   Effect(cache, <<>>,
                          IF conv.ok THEN "ok" ELSE "KeyError",
                          IF conv.ok THEN PyDict(conv.items) ELSE PyNone),
                   NoResponse)

SpecConvert == Init /\ [][ConvertListToDict]_vars

-----------------------------------------------------------------------------
(* The client shared by threads: each step is one statement of a call.     *)
(* Nothing in the client locks, so the statements of the threads' calls    *)
(* interleave freely.                                                      *)

\* The slot the property a thread is in works on: _workflows while
\* custom_statuses evaluates self.workflows.
Slot(t) == IF thread[t].inner THEN "workflows" ELSE thread[t].kind

Goto(t, rec) ==
    /\ thread' = [thread EXCEPT ![t] = rec]
    /\ UNCHANGED callVars

\* The call of thread t raises exc.
Raise(t, exc) ==
    /\ Goto(t, Idle(thread[t].kind, thread[t].done + 1, exc, PyNone))
    /\ raised' = TRUE

\* The call of thread t returns value.
Return(t, value) ==
    /\ Goto(t, Idle(thread[t].kind, thread[t].done + 1, "ok", value))
    /\ UNCHANGED raised

\* A thread reads one of the five properties.
Begin(t, kind) ==
    /\ thread[t].pc = "idle"
    /\ thread[t].done < MaxCalls
    /\ Goto(t, [thread[t] EXCEPT
                   !.pc = IF kind = "custom_statuses" THEN "cs_test" ELSE "test",
                   !.kind = kind, !.out = "none", !.ret = PyNone])
    /\ UNCHANGED <<cache, given, raised, resetRan>>

\* `if not self._x:`
Test(t) ==
    /\ thread[t].pc = "test"
    /\ Goto(t, [thread[t] EXCEPT
                   !.pc = IF Unpopulated(cache[Slot(t)]) THEN "fetch" ELSE "return"])
    /\ UNCHANGED <<cache, given, raised, resetRan>>

\* `all_x = self.query_x_all()["data"]`
Fetch(t) ==
    /\ thread[t].pc = "fetch"
    /\ \E r \in Responses(Slot(t)) :
          IF r.raises
          THEN Raise(t, "TransportError") /\ UNCHANGED given
          ELSE IF "data" \notin DOMAIN r.body
          THEN Raise(t, "KeyError") /\ UNCHANGED given
          ELSE /\ Goto(t, [thread[t] EXCEPT !.pc = "store", !.data = r.body.data])
               /\ given' =
                     IF convert_list_to_dict(r.body.data).ok
                     THEN [given EXCEPT ![Slot(t)] =
                              @ \cup {PyDict(convert_list_to_dict(r.body.data).items)}]
                     ELSE given
               /\ UNCHANGED raised
    /\ UNCHANGED <<cache, resetRan>>

\* `self._x = convert_list_to_dict(all_x)`
Store(t) ==
    /\ thread[t].pc = "store"
    /\ LET conv == convert_list_to_dict(thread[t].data)
       IN  IF conv.ok
           THEN /\ cache' = [cache EXCEPT ![Slot(t)] = PyDict(conv.items)]
                /\ Goto(t, [thread[t] EXCEPT !.pc = "return", !.data = <<>>])
                /\ UNCHANGED raised
           ELSE Raise(t, "KeyError") /\ UNCHANGED cache
    /\ UNCHANGED <<given, resetRan>>

\* `return self._x`; inside custom_statuses the caller takes .values() of
\* what is returned, which None does not have.
ReturnSlot(t) ==
    /\ thread[t].pc = "return"
    /\ IF thread[t].inner
       THEN IF cache["workflows"] = PyNone
            THEN Raise(t, "AttributeError")
            ELSE /\ Goto(t, [thread[t] EXCEPT
                                !.pc = "cs_loop", !.inner = FALSE,
                                !.todo = DictValues(cache["workflows"].items)])
                 /\ UNCHANGED raised
       ELSE Return(t, cache[Slot(t)])
    /\ UNCHANGED <<cache, given, resetRan>>

\* `if not self._custom_statuses:`
CsTest(t) ==
    /\ thread[t].pc = "cs_test"
    /\ Goto(t, [thread[t] EXCEPT
                   !.pc = IF Unpopulated(cache["custom_statuses"])
                          THEN "cs_clear" ELSE "cs_return"])
    /\ UNCHANGED <<cache, given, raised, resetRan>>

\* `self._custom_statuses = {}`, and on to self.workflows.
CsClear(t) ==
    /\ thread[t].pc = "cs_clear"
    /\ cache' = [cache EXCEPT !["custom_statuses"] = EmptyDict]
    /\ Goto(t, [thread[t] EXCEPT !.pc = "test", !.inner = TRUE])
    /\ UNCHANGED <<given, raised, resetRan>>

\* One step of the two loops: the next workflow's workflow["customStatuses"],
\* or `self._custom_statuses[custom_status["id"]] = custom_status`, which
\* writes into whatever dict the slot holds at that moment.
CsLoop(t) ==
    /\ thread[t].pc = "cs_loop"
    /\ IF thread[t].statuses # <<>>
       THEN LET custom_status == Head(thread[t].statuses)
            IN  IF "id" \notin DOMAIN custom_status
                THEN Raise(t, "KeyError") /\ UNCHANGED cache
                ELSE IF cache["custom_statuses"] = PyNone
                THEN Raise(t, "TypeError") /\ UNCHANGED cache
                ELSE /\ cache' = [cache EXCEPT !["custom_statuses"] =
                                    PyDict(DictSet(@.items, custom_status.id,
                                                   custom_status))]
                     /\ Goto(t, [thread[t] EXCEPT !.statuses = Tail(@)])
                     /\ UNCHANGED raised
       ELSE IF thread[t].todo = <<>>
       THEN /\ Goto(t, [thread[t] EXCEPT !.pc = "cs_return"])
            /\ UNCHANGED <<cache, raised>>
       ELSE IF "customStatuses" \notin DOMAIN Head(thread[t].todo)
       THEN Raise(t, "KeyError") /\ UNCHANGED cache
       ELSE /\ Goto(t, [thread[t] EXCEPT
                           !.statuses = Head(thread[t].todo).customStatuses,
                           !.todo = Tail(@)])
            /\ UNCHANGED <<cache, raised>>
    /\ UNCHANGED <<given, resetRan>>

\* `return self._custom_statuses`
CsReturn(t) ==
    /\ thread[t].pc = "cs_return"
    /\ Return(t, cache["custom_statuses"])
    /\ UNCHANGED <<cache, given, resetRan>>

\* The order in which reinitialize() assigns None.
ResetOrder ==
    <<"contacts", "custom_fields", "custom_statuses", "folders", "workflows">>

\* A thread calls reinitialize().
BeginReinitialize(t) ==
    /\ thread[t].pc = "idle"
    /\ thread[t].done < MaxCalls
    /\ Goto(t, [thread[t] EXCEPT
                   !.pc = "reset", !.kind = "reinitialize", !.left = ResetOrder,
                   !.out = "none", !.ret = PyNone])
    /\ resetRan' = TRUE
    /\ UNCHANGED <<cache, given, raised>>

\* One of the five assignments `self._x = None`, and the return after the
\* last.
ResetStep(t) ==
    /\ thread[t].pc = "reset"
    /\ IF thread[t].left = <<>>
       THEN Return(t, PyNone) /\ UNCHANGED cache
       ELSE /\ cache' = [cache EXCEPT ![Head(thread[t].left)] = PyNone]
            /\ Goto(t, [thread[t] EXCEPT !.left = Tail(@)])
            /\ UNCHANGED raised
    /\ UNCHANGED <<given, resetRan>>

NextThreads ==
    \E t \in Threads :
        \/ \E kind \in Kinds : Begin(t, kind)
        \/ Test(t)
        \/ Fetch(t)
        \/ Store(t)
        \/ ReturnSlot(t)
        \/ CsTest(t)
        \/ CsClear(t)
        \/ CsLoop(t)
        \/ CsReturn(t)
        \/ BeginReinitialize(t)
        \/ ResetStep(t)

SpecThreads == Init /\ [][NextThreads]_vars

-----------------------------------------------------------------------------
(* What the claims say, in terms of the model *)

\* A slot is populated, as the specification counts it: it holds a
\* dictionary, possibly an empty one.
Populated(slot) == slot # PyNone

Range(seq) == {seq[i] : i \in 1..Len(seq)}

\* The dictionary a well-formed response converts to.
Converted(r) == PyDict(convert_list_to_dict(r.body.data).items)

\* The custom statuses of a well-formed workflows response, flattened.
Flattened(r) ==
    PyDict(AddWorkflows(DictValues(Converted(r).items), <<>>).items)

WellFormed(r) ==
    /\ ~r.raises
    /\ "data" \in DOMAIN r.body
    /\ convert_list_to_dict(r.body.data).ok

\* folder.project.<key> is there to be read.
HasProjectValue(folder, key) ==
    /\ folder # JsonNull
    /\ "project" \in DOMAIN folder
    /\ folder.project # JsonNull
    /\ key \in DOMAIN folder.project

IsCustom(folder) ==
    HasProjectValue(folder, "status") /\ folder.project.status = "Custom"

\* Whatever Transport answered the step's call, if it was asked, was a
\* well-formed response.
AnsweredWell == calls' = <<>> \/ WellFormed(resp')

\* C1: two accesses of one kind with no reinitialize() between them issue
\* exactly one Transport fetch in total and return the same dictionary,
\* whatever well-formed response the service gives: the second access
\* requests nothing and returns what the first returned, and when the first
\* directly followed a reset the two together request once.
C1_CacheIdempotence ==
    [][\A k \in Kinds :
          (lastOp.op = k /\ outcome = "ok" /\ lastOp'.op = k /\ AnsweredWell)
          => /\ calls' = <<>>
             /\ outcome' = "ok"
             /\ ret' = ret
             /\ (afterReset => Len(calls) + Len(calls') = 1)]_vars

\* C2: the access that directly follows reinitialize() requests the kind's
\* endpoint afresh (the workflows endpoint for custom_statuses) and, when it
\* succeeds, returns and stores the dictionary built from that response.
C2_FreshAfterReset ==
    \A k \in Kinds :
        (afterReset /\ lastOp.op = k)
        => /\ calls = <<Endpoint(SourceOf(k))>>
           /\ resp \in Responses(SourceOf(k))
           /\ outcome = "ok"
              => /\ WellFormed(resp)
                 /\ ret = IF k = "custom_statuses" THEN Flattened(resp)
                                                   ELSE Converted(resp)
                 /\ cache[k] = ret

C2_Witness ==
    /\ afterReset
    /\ lastOp.op = "custom_statuses"
    /\ outcome = "ok"
    /\ calls = <<"workflows">>
    /\ Len(ret.items) = 2

\* C3: a slot populated by a successful fetch keeps that dictionary until
\* reinitialize(): no later call changes it or requests its endpoint again,
\* and every access returns it.
C3_Staleness ==
    [][\A k \in Kinds :
          (/\ Populated(cache[k])
           /\ k = "custom_statuses" => (lastOp.op = k /\ outcome = "ok")
           /\ lastOp'.op # "reinitialize"
           /\ AnsweredWell)
          => /\ cache'[k] = cache[k]
             /\ Endpoint(SourceOf(k)) \notin Range(calls')
             /\ lastOp'.op = k => (outcome' = "ok" /\ ret' = cache[k])]_vars

\* C4: right after construction and right after every reinitialize() the
\* five slots are unpopulated, and neither requested anything.
C4_ResetUnpopulatesAll ==
    lastOp.op \in {"__init__", "reinitialize"}
    => /\ \A k \in Kinds : cache[k] = PyNone
       /\ calls = <<>>
       /\ outcome = "ok"

C4_Witness ==
    /\ lastOp.op = "reinitialize"
    /\ \A k \in Kinds : cache[k] = PyNone

\* C5: from workflows and custom_statuses both unpopulated, a successful
\* access of custom_statuses requests the workflows endpoint once and
\* nothing else and leaves both slots populated; an access of workflows or
\* custom_statuses that follows it requests nothing; and with workflows
\* populated an access of custom_statuses requests nothing.
C5_SinglePopulationChain ==
    [][/\ (/\ cache["workflows"] = PyNone
           /\ cache["custom_statuses"] = PyNone
           /\ lastOp'.op = "custom_statuses"
           /\ outcome' = "ok")
          => /\ calls' = <<"workflows">>
             /\ Populated(cache'["workflows"])
             /\ Populated(cache'["custom_statuses"])
       /\ (/\ lastOp.op = "custom_statuses"
           /\ outcome = "ok"
           /\ lastOp'.op \in {"workflows", "custom_statuses"}
           /\ AnsweredWell)
          => calls' = <<>>
       /\ (/\ Populated(cache["workflows"])
           /\ lastOp'.op = "custom_statuses"
           /\ AnsweredWell)
          => calls' = <<>>]_vars

\* C6: an access that fails made at most one Transport attempt and leaves
\* the slot of its kind unpopulated, holding no partly built dictionary, so
\* that the next access populates it again.
C6_FailureLeavesUnpopulated ==
    \A k \in Kinds :
        (lastOp.op = k /\ outcome # "ok")
        => /\ Len(calls) <= 1
           /\ ret = PyNone
           /\ Unpopulated(cache[k])

\* C7: a call of extract_project_status that returns gives the name of the
\* cached custom status when project.status is "Custom" and
\* project.customStatusId is present and a key of the custom-status cache,
\* and project.status unchanged (None when it is not set) otherwise.
C7_ProjectStatusResult ==
    (lastOp.op = "extract_project_status" /\ outcome = "ok")
    => LET folder == lastOp.arg
           statuses == cache["custom_statuses"]
       IN  IF /\ IsCustom(folder)
              /\ HasProjectValue(folder, "customStatusId")
              /\ Populated(statuses)
              /\ folder.project.customStatusId \in Keys(statuses.items)
           THEN ret = PyStr(DictGet(statuses.items,
                                    folder.project.customStatusId).name)
           ELSE IF HasProjectValue(folder, "status")
                THEN ret = PyStr(folder.project.status)
                ELSE ret = PyNone

C7_Witness ==
    /\ lastOp.op = "extract_project_status"
    /\ outcome = "ok"
    /\ IsCustom(lastOp.arg)
    /\ ret = PyStr("Review")

\* C8: for a folder whose project object or requested key is missing,
\* extract_project_value_from_folder returns None, and
\* extract_project_status returns None, raises nothing and requests nothing.
C8_AbsentNeverAnError ==
    lastOp.op = "extract_project_status"
    => LET folder == lastOp.arg
       IN  /\ \A key \in {"status", "customStatusId"} :
                 ~HasProjectValue(folder, key)
                 => extract_project_value_from_folder(key, folder) = PyNone
           /\ ~HasProjectValue(folder, "status")
              => (outcome = "ok" /\ ret = PyNone /\ calls = <<>>)

C8_Witness ==
    /\ lastOp = Op("extract_project_status", [id |-> "F"])
    /\ outcome = "ok"
    /\ ret = PyNone
    /\ cache["custom_statuses"] = PyNone

\* C9 as claimed: with project.status "Custom" and project.customStatusId
\* present but not a key of the custom-status cache, extract_project_status
\* fails and returns no value.
C9_UnresolvableIdFails ==
    (/\ lastOp.op = "extract_project_status"
     /\ IsCustom(lastOp.arg)
     /\ HasProjectValue(lastOp.arg, "customStatusId")
     /\ ~(/\ Populated(cache["custom_statuses"])
          /\ lastOp.arg.project.customStatusId
                 \in Keys(cache["custom_statuses"].items)))
    => (outcome # "ok" /\ ret = PyNone)

\* C9, amended: with project.status "Custom" and project.customStatusId
\* present and not empty but not a key of the custom-status cache once it
\* is populated, extract_project_status fails, with KeyError unless the
\* population itself failed, and returns no value; the slots hold what the
\* population stored: a cache populated before the call is left as it was
\* and nothing is requested.
C9_UnresolvableNonEmptyIdFails ==
    [][(/\ lastOp'.op = "extract_project_status"
        /\ IsCustom(lastOp'.arg)
        /\ HasProjectValue(lastOp'.arg, "customStatusId")
        /\ lastOp'.arg.project.customStatusId # ""
        /\ lastOp'.arg.project.customStatusId
               \notin Keys(cache'["custom_statuses"].items))
       => /\ outcome' \in {"KeyError", "TransportError"}
          /\ ret' = PyNone
          /\ calls' = <<>> => outcome' = "KeyError"
          /\ cache' = custom_statuses(cache, resp').cache
          /\ ~Unpopulated(cache["custom_statuses"])
             => (cache' = cache /\ calls' = <<>>)]_vars

C9_Witness ==
    /\ lastOp.op = "extract_project_status"
    /\ IsCustom(lastOp.arg)
    /\ outcome = "KeyError"
    /\ calls = <<"workflows">>
    /\ WellFormed(resp)
    /\ cache["custom_statuses"] = Flattened(resp)
    /\ Len(cache["custom_statuses"].items) = 1
    /\ lastOp.arg.project.customStatusId \notin Keys(cache["custom_statuses"].items)

\* The dictionaries that are the whole conversion of one response given so
\* far: for custom_statuses, the flattening of one workflows response.
Complete(kind) ==
    IF kind = "custom_statuses"
    THEN {PyDict(AddWorkflows(DictValues(d.items), <<>>).items) :
              d \in given["workflows"]}
    ELSE given[kind]

\* C10: when threads read the properties concurrently, with no reset and no
\* failing call, every dictionary a property returns is the whole
\* conversion of one Transport response, for each of the five kinds.
C10_NoPartialDictionaryReturned ==
    (~raised /\ ~resetRan)
    => \A t \in Threads :
          (thread[t].pc = "idle" /\ thread[t].out = "ok")
          => thread[t].ret \in Complete(thread[t].kind)

-----------------------------------------------------------------------------
(* The queries *)

\* The protocol string of each identifier type tag, as the interface of
\* the service fixes it.
ProtocolString(tag) ==
    CASE tag = "ACCOUNT"    -> "ApiV2Account"
      [] tag = "USER"       -> "ApiV2User"
      [] tag = "FOLDER"     -> "ApiV2Folder"
      [] tag = "TASK"       -> "ApiV2Task"
      [] tag = "COMMENT"    -> "ApiV2Comment"
      [] tag = "ATTACHMENT" -> "ApiV2Attachment"
      [] tag = "TIMELOG"    -> "ApiV2Timelog"

\* C11: every call of convert_to_id4s, a repetition of the call before it
\* included, requests "ids/" exactly once with the protocol string of its
\* tag as the type parameter, and leaves the five slots as they were,
\* populated or not.
C11_IdLookupPassThrough ==
    [][lastOp'.op = "convert_to_id4s"
       => /\ calls' = <<"ids/">>
          /\ Len(params') = 1
          /\ params'[1].type = ProtocolString(lastOp'.arg.idType)
          /\ cache' = cache]_vars

C11_Witness ==
    /\ lastOp = Op("convert_to_id4s", [id2s |-> <<"12345">>, idType |-> "FOLDER"])
    /\ calls = <<"ids/">>
    /\ params = <<[type |-> "ApiV2Folder", ids |-> "['12345']"]>>
    /\ Truthy(cache["folders"])
    /\ Truthy(cache["contacts"])

\* The trackedDate parameter of the one request of the call, if it has one.
HasTrackedDate == "trackedDate" \in DOMAIN params[1]

Matching(title) ==
    IF Populated(cache["folders"])
    THEN {f \in Range(DictValues(cache["folders"].items)) : f.title = title}
    ELSE {}

-----------------------------------------------------------------------------
(* The dictionary conversion *)

\* C13: for a list whose records all have an id, convert_list_to_dict
\* returns a dictionary whose keys are exactly the ids of the list, each
\* once, each mapped to the last record of the list with that id, so that
\* every key is the id of its value and a list of N distinct ids gives N
\* entries; for a list with a record without id it raises KeyError and
\* returns nothing.
C13_DictionaryConversion ==
    lastOp.op = "convert_list_to_dict"
    => LET list == lastOp.arg.list
           n == Len(list)
           ids == {list[i].id : i \in {j \in 1..n : "id" \in DOMAIN list[j]}}
           Last(id) == CHOOSE i \in 1..n :
                           /\ list[i].id = id
                           /\ \A j \in (i + 1)..n : list[j].id # id
       IN  IF \A i \in 1..n : "id" \in DOMAIN list[i]
           THEN /\ outcome = "ok"
                /\ Keys(ret.items) = ids
                /\ Len(ret.items) = Cardinality(ids)
                /\ \A e \in Range(ret.items) :
                      /\ e.value = list[Last(e.key)]
                      /\ e.value.id = e.key
                /\ Cardinality(ids) = n
                   => \A i \in 1..n : DictGet(ret.items, list[i].id) = list[i]
           ELSE outcome = "KeyError" /\ ret = PyNone

C13_Witness ==
    /\ lastOp.op = "convert_list_to_dict"
    /\ lastOp.arg.list = << [id |-> "A", title |-> "one"],
                            [id |-> "B", title |-> "one"],
                            [id |-> "A", title |-> "two"] >>
    /\ outcome = "ok"
    /\ Len(ret.items) = 2
    /\ DictGet(ret.items, "A") = [id |-> "A", title |-> "two"]

-----------------------------------------------------------------------------
(* The slots against each other *)

\* C14: in every state sequential use reaches, a custom_statuses slot that
\* holds a non-empty dictionary goes with a populated workflows slot whose
\* records all flatten, and is that flattening: the statuses of every
\* workflow's customStatuses list by id, the later one winning.
C14_DerivedCacheConsistency ==
    Truthy(cache["custom_statuses"])
    => /\ Populated(cache["workflows"])
       /\ LET built == AddWorkflows(DictValues(cache["workflows"].items), <<>>)
          IN  /\ built.ok
              /\ cache["custom_statuses"] = PyDict(built.items)


\* C15: reading contacts, custom_fields, folders or workflows requests
\* nothing but that kind's own endpoint and leaves the other four slots as
\* they were; reading custom_statuses requests nothing but the workflows
\* endpoint and leaves contacts, custom_fields and folders as they were.
C15_IndependentCaches ==
    [][/\ \A k \in FetchedKinds :
            lastOp'.op = k
            => /\ Range(calls') \subseteq {Endpoint(k)}
               /\ \A j \in Kinds \ {k} : cache'[j] = cache[j]
       /\ lastOp'.op = "custom_statuses"
          => /\ Range(calls') \subseteq {Endpoint("workflows")}
             /\ \A j \in Kinds \ {"custom_statuses", "workflows"} :
                   cache'[j] = cache[j]]_vars

C15_Witness ==
    /\ lastOp.op = "contacts"
    /\ calls = <<"contacts">>
    /\ outcome = "ok"
    /\ Truthy(cache["contacts"])
    /\ Truthy(cache["custom_fields"])
    /\ Truthy(cache["custom_statuses"])
    /\ Truthy(cache["folders"])
    /\ Truthy(cache["workflows"])

\* The custom_statuses slot has been populated: it holds a non-empty
\* dictionary, or the empty one that the successful read just before
\* returned.
StatusesPopulated ==
    \/ Truthy(cache["custom_statuses"])
    \/ /\ cache["custom_statuses"] = EmptyDict
       /\ lastOp.op = "custom_statuses"
       /\ outcome = "ok"

\* C16: extract_project_status requests something or changes a slot only
\* when project.status is "Custom", project.customStatusId is present and
\* the custom_statuses slot is not yet populated; in every other case it
\* requests nothing and leaves the five slots as they were.
C16_StatusExtractionSideEffects ==
    [][(/\ lastOp'.op = "extract_project_status"
        /\ ~(/\ IsCustom(lastOp'.arg)
             /\ HasProjectValue(lastOp'.arg, "customStatusId")
             /\ ~StatusesPopulated))
       => (calls' = <<>> /\ cache' = cache)]_vars

\* C17: when reinitialize() runs while properties are being read, a read
\* still returns a dictionary, never None, and raises none of the errors
\* only the race can cause (TypeError, AttributeError); and once every
\* call has ended each slot is unpopulated or holds the whole conversion of
\* one response.
C17_ResetRacingPopulation ==
    resetRan
    => /\ \A t \in Threads :
             (thread[t].pc = "idle" /\ thread[t].kind \in Kinds)
             => /\ thread[t].out \notin {"TypeError", "AttributeError"}
                /\ thread[t].out = "ok" => thread[t].ret # PyNone
       /\ (\A t \in Threads : thread[t].pc = "idle")
          => \A k \in Kinds : cache[k] = PyNone \/ cache[k] \in Complete(k)

=============================================================================
